---- MODULE Spec2Model ----
(***************************************************************************)
(* nanonetcall.py: the batch planner of main() (files_pattern, pa_list),   *)
(* process_read() run for every planned unit by a bounded pool, and the    *)
(* aggregation loop of main() that writes the FASTA output.                *)
(*                                                                         *)
(* Strings are sequences of one-character strings, so that split(':'),     *)
(* int(), lower() and the substring test are computed, not assumed.        *)
(* Values of external pure functions whose numerics no property here needs *)
(* (the decoded path, the assembled sequence) are kept as terms naming the *)
(* function and its argument.  Timing counters and n_bases are left out.   *)
(***************************************************************************)
EXTENDS Integers, Sequences, FiniteSets, TLC

VARIABLES
    args,           \* the parsed command line (get_parser().parse_args())
    nfiles,         \* how many read files the input stream holds
    posterior,      \* per read file: what network.run yields for its features
    mpc,            \* position of main()
    px,             \* loop index x of the files_pattern loop
    files_pattern,  \* main(): files_pattern
    pa_list,        \* main(): pa_list
    unit,           \* per planned unit: the locals of its process_read call
    file,           \* per read file: the datasets appended to it
    handles,        \* accelerator handles created so far: owner and kind
    uses,           \* (unit, handle) pairs: a unit submitted work on a handle
    delivered,      \* how many results tang_imap has yielded to main()
    fasta,          \* records written to the FASTA output
    n_reads,        \* main(): n_reads
    n_events        \* main(): n_events

vars == <<args, nfiles, posterior, mpc, px, files_pattern, pa_list, unit, file, handles,
          uses, delivered, fasta, n_reads, n_events>>

execVars == <<unit, file, handles, uses, delivered, fasta, n_reads, n_events>>

----------------------------------------------------------------------------
(* Bounds *)
MaxJobs == 2
MaxPlatforms == 2
MaxBatch == 3
MaxFiles == 3
MaxEvents == 2
MaxReadFiles == 2

----------------------------------------------------------------------------
(* Strings *)

\* str.lower() on one character
LowerChar(c) ==
    CASE c = "N" -> "n" [] c = "V" -> "v" [] c = "A" -> "a" [] c = "M" -> "m"
      [] c = "I" -> "i" [] OTHER -> c

Lower(s) == [k \in 1..Len(s) |-> LowerChar(s[k])]

\* a in b, for strings
IsSubstring(a, b) ==
    \E k \in 0..(Len(b) - Len(a)) : SubSeq(b, k + 1, k + Len(a)) = a

\* index of the first sep at or after position k, 0 when there is none
RECURSIVE FindChar(_, _, _)
FindChar(s, sep, k) ==
    IF k > Len(s) THEN 0
    ELSE IF s[k] = sep THEN k ELSE FindChar(s, sep, k + 1)

\* str.split(sep)
RECURSIVE Split(_, _)
Split(s, sep) ==
    LET k == FindChar(s, sep, 1) IN
    IF k = 0 THEN <<s>>
    ELSE <<SubSeq(s, 1, k - 1)>> \o Split(SubSeq(s, k + 1, Len(s)), sep)

DigitVal(c) ==
    CASE c = "0" -> 0 [] c = "1" -> 1 [] c = "2" -> 2 [] c = "3" -> 3
      [] c = "4" -> 4 [] c = "5" -> 5 [] c = "6" -> 6 [] c = "7" -> 7
      [] c = "8" -> 8 [] c = "9" -> 9

\* int(s) of a string of decimal digits
RECURSIVE ParseInt(_)
ParseInt(s) ==
    IF Len(s) = 0 THEN 0
    ELSE 10 * ParseInt(SubSeq(s, 1, Len(s) - 1)) + DigitVal(s[Len(s)])

----------------------------------------------------------------------------
(* Inputs *)

\* values of --platforms entries, VENDOR:DEVICE
PlatformArgs ==
    { <<"N", "V", ":", "0">>, <<"n", "v", ":", "1">>, <<"a", "m", ":", "0">> }

\* cl.get_platforms() restricted to platforms with a GPU device: NAME and
\* the number of GPU devices
GpuPlatforms == << [name |-> <<"N", "v", "i">>, ndev |-> 1] >>

SeqsUpTo(S, n) == UNION { [1..k -> S] : k \in 1..n }

\* the k-mer tables of the model file: with and without the all-X sentinel
KmersX == << <<"A", "A">>, <<"A", "C">>, <<"X", "X">> >>
KmersNoX == << <<"A", "A">>, <<"A", "C">>, <<"C", "A">> >>

ArgSets ==
    [ jobs : 1..MaxJobs, opencl : {FALSE}, platforms : {<< >>},
      opencl_input_files : {1}, kmers : {KmersX, KmersNoX} ]
    \cup
    [ jobs : 1..MaxJobs, opencl : {TRUE},
      platforms : SeqsUpTo(PlatformArgs, MaxPlatforms),
      opencl_input_files : 1..MaxBatch, kmers : {KmersX, KmersNoX} ]

----------------------------------------------------------------------------
(* Batch planner: main(), lines 302-321 *)

\* iterate_fast5(..., files_group_pattern=pattern): the stream of files
\* first..n cut into consecutive groups, the k-th group (0-based) of size
\* pattern[k mod len(pattern)], the last one possibly short
RECURSIVE GroupFrom(_, _, _, _)
GroupFrom(first, n, pattern, k) ==
    IF first > n THEN << >>
    ELSE LET size == pattern[(k % Len(pattern)) + 1]
             last == IF first + size - 1 > n THEN n ELSE first + size - 1
         IN  << [j \in 1..(last - first + 1) |-> first + j - 1] >>
             \o GroupFrom(last + 1, n, pattern, k + 1)

iterate_fast5(n, pattern) == GroupFrom(1, n, pattern, 0)

\* process_attr.__init__
process_attr(fast5_files, use_opencl, vendor, device_id) ==
    [ fast5_files |-> fast5_files, use_opencl |-> use_opencl,
      vendor |-> vendor, device_id |-> device_id ]

NoVendor == << >>

\* line 317 without the wrap-around of the unit index
InPlatformRange_NoWrap(a, i) == i < Len(a.platforms)

\* the i % args.jobs in xrange(len(args.platforms)) test of line 317
InPlatformRange(a, i) == (i % a.jobs) < Len(a.platforms)

\* body of the enumerate loop, lines 317-321, for unit index i (0-based)
AssignUnit(a, i, ff) ==
    IF a.opencl /\ InPlatformRange(a, i)
    THEN LET parts == Split(a.platforms[(i % a.jobs) + 1], ":")
         IN  process_attr(ff, TRUE, parts[1], ParseInt(parts[2]))
    ELSE process_attr(ff, FALSE, NoVendor, 0)

\* files_pattern after lines 302-305, when the loop does not raise
FilesPattern(a) ==
    [ x \in 1..a.jobs |->
        IF a.opencl /\ x <= Len(a.platforms) THEN a.opencl_input_files ELSE 1 ]

\* pa_list after lines 315-321
PaList(a, n) ==
    LET groups == iterate_fast5(n, FilesPattern(a))
    IN  [ k \in 1..Len(groups) |-> AssignUnit(a, k - 1, groups[k]) ]

InitPlan ==
    /\ args \in ArgSets
    /\ nfiles \in 1..MaxFiles
    /\ posterior = << >>
    /\ mpc = "pattern"
    /\ px = 0
    /\ files_pattern = [x \in 1..args.jobs |-> 1]
    /\ pa_list = << >>
    /\ unit = << >>
    /\ file = [f \in 1..nfiles |-> << >>]
    /\ handles = << >>
    /\ uses = {}
    /\ delivered = 0
    /\ fasta = << >>
    /\ n_reads = 0
    /\ n_events = 0

\* line 303 false, or the loop of line 304 exhausted
PatternDone ==
    /\ mpc = "pattern"
    /\ ~args.opencl \/ px >= Len(args.platforms)
    /\ mpc' = "enumerate"
    /\ UNCHANGED <<args, nfiles, posterior, px, files_pattern, pa_list, execVars>>

\* line 305: files_pattern[x] = args.opencl_input_files
PatternSet ==
    /\ mpc = "pattern"
    /\ args.opencl /\ px < Len(args.platforms)
    /\ px + 1 <= Len(files_pattern)
    /\ files_pattern' = [files_pattern EXCEPT ![px + 1] = args.opencl_input_files]
    /\ px' = px + 1
    /\ UNCHANGED <<args, nfiles, posterior, mpc, pa_list, execVars>>

\* line 305 with x past the end of files_pattern: IndexError, main() dies
PatternIndexError ==
    /\ mpc = "pattern"
    /\ args.opencl /\ px < Len(args.platforms)
    /\ px + 1 > Len(files_pattern)
    /\ mpc' = "crashed"
    /\ UNCHANGED <<args, nfiles, posterior, px, files_pattern, pa_list, execVars>>

\* one iteration of the loop of lines 316-321
Enumerate ==
    /\ mpc = "enumerate"
    /\ LET groups == iterate_fast5(nfiles, files_pattern)
           i == Len(pa_list)
       IN  /\ i < Len(groups)
           /\ pa_list' = Append(pa_list, AssignUnit(args, i, groups[i + 1]))
    /\ UNCHANGED <<args, nfiles, posterior, mpc, px, files_pattern, execVars>>

\* the stream is exhausted: main() goes on to line 323
EnumerateDone ==
    /\ mpc = "enumerate"
    /\ Len(pa_list) = Len(iterate_fast5(nfiles, files_pattern))
    /\ mpc' = "planned"
    /\ UNCHANGED <<args, nfiles, posterior, px, files_pattern, pa_list, execVars>>

NextPlan ==
    \/ PatternDone
    \/ PatternSet
    \/ PatternIndexError
    \/ Enumerate
    \/ EnumerateDone

SpecPlan == InitPlan /\ [][NextPlan]_vars

\* the planner's step-by-step result is the closed form used to start Spec
PlanAgrees ==
    mpc = "planned" =>
        /\ files_pattern = FilesPattern(args)
        /\ pa_list = PaList(args, nfiles)

----------------------------------------------------------------------------
(* process_read(), lines 106-273, and what it calls *)

\* rows of a posterior matrix over three states, as integer weights: the
\* first state most likely, the last state most likely, the last two tied
Rows == { <<3, 1, 0>>, <<1, 0, 3>>, <<0, 2, 2>> }

Posts == SeqsUpTo(Rows, MaxEvents)

NextRow(r) ==
    CASE r = <<3, 1, 0>> -> <<1, 0, 3>>
      [] r = <<1, 0, 3>> -> <<0, 2, 2>>
      [] OTHER -> <<3, 1, 0>>

RECURSIVE ShiftRows(_, _)
ShiftRows(p, k) ==
    IF k = 0 THEN p ELSE ShiftRows([t \in 1..Len(p) |-> NextRow(p[t])], k - 1)

\* the matrices of one input directory: that of the first file, and every
\* later file's rows moved one row kind on from the file before it
DataSets(S, n) == { [f \in 1..n |-> ShiftRows(p, f - 1)] : p \in S }

\* two events: the first state most likely, then the sentinel most likely
BasePost == << <<3, 1, 0>>, <<1, 0, 3>> >>

\* np.argmax over one row: the first index holding the maximum
ArgMax(row) ==
    CHOOSE k \in 1..Len(row) :
        /\ \A j \in 1..Len(row) : row[j] <= row[k]
        /\ \A j \in 1..(k - 1) : row[j] < row[k]

\* line 183: kmers[-1] == 'X'*len(kmers[-1])
HasSentinel(kmers) ==
    kmers[Len(kmers)] = [k \in 1..Len(kmers[Len(kmers)]) |-> "X"]

\* line 184 with the sentinel column taken one column too early
GoodEvents_OffByOne(post) ==
    [t \in 1..Len(post) |-> ArgMax(post[t]) # Len(post[t]) - 1]

\* lines 184-186: good_events = (np.argmax(post, axis=1) != post.shape[1] - 1)
GoodEvents(post) ==
    [t \in 1..Len(post) |-> ArgMax(post[t]) # Len(post[t])]

\* indexing by a boolean mask: the positions that are True, ascending
RECURSIVE MaskIndices(_, _)
MaskIndices(mask, t) ==
    IF t > Len(mask) THEN << >>
    ELSE (IF mask[t] THEN <<t>> ELSE << >>) \o MaskIndices(mask, t + 1)

\* line 188: post[good_events]
SelectRows(post, mask) ==
    LET idx == MaskIndices(mask, 1) IN [k \in 1..Len(idx) |-> post[idx[k]]]

\* line 189: post[:, :-1]
DropLastColumn(post) ==
    [t \in 1..Len(post) |-> SubSeq(post[t], 1, Len(post[t]) - 1)]

RECURSIVE RowSum(_)
RowSum(row) == IF Len(row) = 0 THEN 0 ELSE row[1] + RowSum(Tail(row))

\* lines 191-192: post /= np.sum(post, axis=1); a cell becomes the fraction
\* <<cell, row sum>>
Normalise(post) ==
    [t \in 1..Len(post) |->
        [j \in 1..Len(post[t]) |-> <<post[t][j], RowSum(post[t])>>]]

\* line 196: min_prob + (1.0 - min_prob) * post, cell by cell
Floored(post) ==
    [t \in 1..Len(post) |->
        [j \in 1..Len(post[t]) |-> [min_prob_plus_rest_of |-> post[t][j]]]]

\* lines 183-189: the matrix after the sentinel filter
FilterPost(kmers, post) ==
    IF HasSentinel(kmers)
    THEN DropLastColumn(SelectRows(post, GoodEvents(post)))
    ELSE post

\* lines 183-197: what is stored back into post_list[x]
PreparePost(kmers, post) == Floored(Normalise(FilterPost(kmers, post)))

\* decoding.decode_profile / decode_profile_opencl: the state path of one
\* read, one state per row of the matrix it is given
decode_profile(read, post) == [path_of |-> read, len |-> Len(post)]

\* lines 213-214: kmers_to_sequence([kmers[i] for i in states])
FormBasecall(states) == [seq_of |-> states.path_of, path |-> states]

\* lines 158-161: the device the unit asks for, or what is missing
MatchingPlatforms(vendor) ==
    SelectSeq(GpuPlatforms, LAMBDA p : IsSubstring(Lower(vendor), Lower(p.name)))

\* line 161 with any ordinal accepted
DeviceFound_AnyOrdinal(pa) == Len(MatchingPlatforms(pa.vendor)) > 0

DeviceFound(pa) ==
    LET platforms == MatchingPlatforms(pa.vendor)
    IN  /\ Len(platforms) > 0
        /\ pa.device_id < platforms[1].ndev

\* line 164 with a single queue for the whole unit
QueueCount_One(un) == 1

\* line 164: one command queue per entry of features_list
QueueCount(un) == Len(un.features_list)

\* lines 114-129 and 153-154: the locals of a call before its first loop
NewCall ==
    [ pc |-> "idle", x |-> 0, fast5 |-> 0,
      features_list |-> << >>, events_list |-> << >>, name_list |-> << >>,
      post_list |-> << >>, ctx |-> 0, queue_list |-> << >>,
      good_events_list |-> << >>, trans_list |-> << >>,
      states_list |-> << >>, seq_list |-> << >>, ret |-> << >>,
      result |-> "pending", failed_at |-> "none", trace |-> << >> ]

\* an exception swallowed inside process_read, which returns ret as it is
Raised_Swallowed(un, stage) ==
    [un EXCEPT !.pc = "done", !.result = "ret", !.failed_at = stage]

\* an exception leaves process_read
Raised(un, stage) ==
    [un EXCEPT !.pc = "done", !.result = "raised", !.failed_at = stage]

\* line 143: return None
ReturnedNone(un) ==
    [un EXCEPT !.pc = "done", !.result = "None", !.failed_at = "features"]

Units == DOMAIN unit
Pa(u) == pa_list[u]
NReads(u) == Len(Pa(u).fast5_files)
Running == { u \in Units : unit[u].pc \notin {"idle", "done"} }

planVars == <<args, nfiles, posterior, mpc, px, files_pattern, pa_list>>
mainVars == <<delivered, fasta, n_reads, n_events>>

\* tang_imap(..., threads=args.jobs) hands the next unit to a free worker
CanStart(u) ==
    /\ mpc = "planned"
    /\ unit[u].pc = "idle"
    /\ \A v \in Units : v < u => unit[v].pc # "idle"
    /\ Cardinality(Running) < args.jobs

\* the call is at the head of the loop of line 131: it has just been started
\* (lines 114-129 done) or is between two iterations
AtFeatures(u) == unit[u].pc = "features" \/ CanStart(u)

\* where the call is after iteration x of the loop of line 131: in the loop,
\* or past it; line 157 false takes a CPU unit on to the loop of line 176
\* with ctx = None and queue_list = []
AfterFeatures(u, un) ==
    IF un.x < NReads(u) THEN [un EXCEPT !.pc = "features"]
    ELSE IF Pa(u).use_opencl THEN [un EXCEPT !.pc = "device"]
    ELSE [un EXCEPT !.pc = "posts", !.x = 0]

\* lines 131-151, one iteration in which nothing raises
FeaturesOk(u) ==
    /\ AtFeatures(u)
    /\ LET un == unit[u]
           f == Pa(u).fast5_files[un.x + 1]
           prepared ==
               [un EXCEPT !.fast5 = f, !.x = @ + 1,
                          !.events_list = Append(@, f),
                          !.features_list = Append(@, f),
                          !.name_list = Append(@, f),
                          !.trace = Append(@, "prepare")]
           inferred ==
               IF Pa(u).use_opencl THEN prepared
               ELSE [prepared EXCEPT !.post_list = Append(@, posterior[f]),
                                     !.trace = Append(@, "cpu_network")]
       IN  unit' = [unit EXCEPT ![u] = AfterFeatures(u, inferred)]
    /\ UNCHANGED <<planVars, mainVars, file, handles, uses>>

\* lines 133-143: make_basecall_input_multi raises, the call returns None
FeaturesRaise(u) ==
    /\ AtFeatures(u)
    /\ LET un == unit[u]
           f == Pa(u).fast5_files[un.x + 1]
       IN  unit' = [unit EXCEPT ![u] = ReturnedNone([un EXCEPT !.fast5 = f])]
    /\ UNCHANGED <<planVars, mainVars, file, handles, uses>>

\* line 148 raises: features were prepared, network.run fails on the CPU
CpuNetworkRaise(u) ==
    /\ AtFeatures(u)
    /\ ~Pa(u).use_opencl
    /\ LET un == unit[u]
           f == Pa(u).fast5_files[un.x + 1]
       IN  unit' = [unit EXCEPT ![u] =
               Raised([un EXCEPT !.fast5 = f,
                                 !.events_list = Append(@, f),
                                 !.features_list = Append(@, f),
                                 !.name_list = Append(@, f),
                                 !.trace = @ \o <<"prepare", "cpu_network">>],
                      "network")]
    /\ UNCHANGED <<planVars, mainVars, file, handles, uses>>

\* lines 158-165: the context and the command queues are created
DeviceAcquire(u) ==
    /\ unit[u].pc = "device"
    /\ DeviceFound(Pa(u))
    /\ LET un == unit[u]
           c == Len(handles) + 1
           n == QueueCount(un)
       IN  /\ handles' = handles \o <<[owner |-> u, kind |-> "context"]>>
                 \o [k \in 1..n |-> [owner |-> u, kind |-> "queue"]]
           /\ unit' = [unit EXCEPT ![u] =
                 [un EXCEPT !.pc = "network", !.ctx = c,
                            !.queue_list = [k \in 1..n |-> c + k],
                            !.trace = Append(@, "acquire")]]
    /\ UNCHANGED <<planVars, mainVars, file, uses>>

\* line 159 or 161 raises IndexError: no platform of that vendor, or no
\* device of that ordinal
DeviceMissing(u) ==
    /\ unit[u].pc = "device"
    /\ ~DeviceFound(Pa(u))
    /\ unit' = [unit EXCEPT ![u] = Raised(unit[u], "device")]
    /\ UNCHANGED <<planVars, mainVars, file, handles, uses>>

OwnHandles(un) == {un.ctx} \cup { un.queue_list[k] : k \in 1..Len(un.queue_list) }

\* line 166: network.run(features_list, ctx, queue_list)
OpenclNetwork(u) ==
    /\ unit[u].pc = "network"
    /\ LET un == unit[u] IN
       /\ unit' = [unit EXCEPT ![u] =
             [un EXCEPT !.pc = "posts", !.x = 0,
                        !.post_list = [k \in 1..Len(un.features_list) |->
                                           posterior[un.features_list[k]]],
                        !.trace = Append(@, "opencl_network")]]
       /\ uses' = uses \cup { <<u, h>> : h \in OwnHandles(un) }
    /\ UNCHANGED <<planVars, mainVars, file, handles>>

\* line 166 raises
OpenclNetworkRaise(u) ==
    /\ unit[u].pc = "network"
    /\ unit' = [unit EXCEPT ![u] =
          Raised([unit[u] EXCEPT !.trace = Append(@, "opencl_network")], "network")]
    /\ uses' = uses \cup { <<u, h>> : h \in OwnHandles(unit[u]) }
    /\ UNCHANGED <<planVars, mainVars, file, handles>>

\* lines 176-199, one iteration (post_only is False in every call of main)
PostsStep(u) ==
    /\ unit[u].pc = "posts"
    /\ LET un == unit[u]
           x == un.x + 1
           post == un.post_list[x]
           step ==
               [un EXCEPT !.x = x,
                          !.good_events_list =
                              IF HasSentinel(args.kmers)
                              THEN Append(@, GoodEvents(post)) ELSE @,
                          !.post_list[x] = PreparePost(args.kmers, post),
                          !.trans_list = Append(@, x),
                          !.trace = Append(@, "estimate")]
       IN  unit' = [unit EXCEPT ![u] =
               IF x = NReads(u) THEN [step EXCEPT !.pc = "decode"] ELSE step]
    /\ UNCHANGED <<planVars, mainVars, file, handles, uses>>

\* line 198 raises: decoding.estimate_transitions fails
EstimateRaise(u) ==
    /\ unit[u].pc = "posts"
    /\ unit' = [unit EXCEPT ![u] =
          Raised([unit[u] EXCEPT !.trace = Append(@, "estimate")], "decode")]
    /\ UNCHANGED <<planVars, mainVars, file, handles, uses>>

\* lines 201-216: the decode of every read of the unit, then the basecalls
Decode(u) ==
    /\ unit[u].pc = "decode"
    /\ LET un == unit[u]
           states == [k \in 1..NReads(u) |->
                         decode_profile(Pa(u).fast5_files[k], un.post_list[k])]
       IN  /\ unit' = [unit EXCEPT ![u] =
                 [un EXCEPT !.pc = "write", !.x = 0,
                            !.states_list = states,
                            !.seq_list = [k \in 1..NReads(u) |-> FormBasecall(states[k])],
                            !.trace = Append(@, IF Pa(u).use_opencl
                                                THEN "opencl_decode" ELSE "cpu_decode")]]
           /\ uses' = IF Pa(u).use_opencl
                      THEN uses \cup { <<u, h>> : h \in OwnHandles(un) } ELSE uses
    /\ UNCHANGED <<planVars, mainVars, file, handles>>

\* line 202, 207 or 214 raises
DecodeRaise(u) ==
    /\ unit[u].pc = "decode"
    /\ unit' = [unit EXCEPT ![u] =
          Raised([unit[u] EXCEPT !.trace = Append(@, IF Pa(u).use_opencl
                                 THEN "opencl_decode" ELSE "cpu_decode")], "decode")]
    /\ uses' = IF Pa(u).use_opencl
               THEN uses \cup { <<u, h>> : h \in OwnHandles(unit[u]) } ELSE uses
    /\ UNCHANGED <<planVars, mainVars, file, handles>>

\* line 257: the file the datasets of read x go to
WriteTarget(u, un, x) == un.fast5

\* lines 236-255: the annotated event table of read x
EventTable(un, x) ==
    [ kind |-> "Events", events_of |-> un.events_list[x],
      rows |-> MaskIndices(un.good_events_list[x], 1),
      model_state |-> un.states_list[x], annotated |-> Len(un.post_list[x]) ]

\* lines 262-267: the name is the read_id of the opened file when it has
\* one, else the name the features came with
FastqName(target, inherited) == [read_id_of |-> target, else_name |-> inherited]

Fastq(un, x, target) ==
    [ kind |-> "Fastq", name |-> FastqName(target, un.name_list[x]),
      seq |-> un.seq_list[x] ]

\* line 271: the tuple appended to ret
Result(un, x, target) ==
    [ name |-> FastqName(target, un.name_list[x]), seq |-> un.seq_list[x],
      n_ev |-> Len(un.post_list[x]) ]

\* write_events is True in every call of main: lines 226-271, one iteration
WriteOk(u) ==
    /\ unit[u].pc = "write"
    /\ LET un == unit[u]
           x == un.x + 1
           target == WriteTarget(u, un, x)
       IN  /\ x <= Len(un.good_events_list)
           /\ file' = [file EXCEPT ![target] =
                 @ \o <<EventTable(un, x), Fastq(un, x, target)>>]
           /\ unit' = [unit EXCEPT ![u] =
                 LET step == [un EXCEPT !.x = x,
                                        !.ret = Append(@, Result(un, x, target)),
                                        !.trace = Append(@, "write")]
                 IN  IF x = NReads(u)
                     THEN [step EXCEPT !.pc = "done", !.result = "ret"]
                     ELSE step]
    /\ UNCHANGED <<planVars, mainVars, handles, uses>>

\* line 235: good_events_list[x] with nothing at index x, IndexError
WriteIndexError(u) ==
    /\ unit[u].pc = "write"
    /\ unit[u].x + 1 > Len(unit[u].good_events_list)
    /\ unit' = [unit EXCEPT ![u] = Raised(unit[u], "annotate")]
    /\ UNCHANGED <<planVars, mainVars, file, handles, uses>>

\* line 257 or 261 raises: the file cannot be opened or extended
WriteOpenRaise(u) ==
    /\ unit[u].pc = "write"
    /\ unit[u].x + 1 <= Len(unit[u].good_events_list)
    /\ unit' = [unit EXCEPT ![u] = Raised(unit[u], "write")]
    /\ UNCHANGED <<planVars, mainVars, file, handles, uses>>

\* line 266 raises: the event table is in the file, the Fastq is not
WriteFastqRaise(u) ==
    /\ unit[u].pc = "write"
    /\ LET un == unit[u]
           x == un.x + 1
           target == WriteTarget(u, un, x)
       IN  /\ x <= Len(un.good_events_list)
           /\ file' = [file EXCEPT ![target] = Append(@, EventTable(un, x))]
           /\ unit' = [unit EXCEPT ![u] =
                 Raised([un EXCEPT !.trace = Append(@, "write")], "write")]
    /\ UNCHANGED <<planVars, mainVars, handles, uses>>

----------------------------------------------------------------------------
(* The aggregation loop of main(), lines 328-338 *)

\* tang_imap: one output per input, in input order; a call that raised
\* yields no result
tang_imap_yield(un) ==
    IF un.result = "ret" THEN [none |-> FALSE, ret |-> un.ret]
    ELSE [none |-> TRUE, ret |-> << >>]

\* lines 330-331 left out
Skipped_Never(ret) == FALSE

\* lines 330-331: if ret is None: continue
Skipped(ret) == ret.none

RECURSIVE SumEvents(_)
SumEvents(ret) == IF Len(ret) = 0 THEN 0 ELSE ret[1].n_ev + SumEvents(Tail(ret))

\* lines 329-337, one iteration of the outer loop; line 332 over a ret
\* that is None is a TypeError, which ends main()
Aggregate ==
    /\ mpc = "planned"
    /\ delivered < Len(unit)
    /\ unit[delivered + 1].pc = "done"
    /\ LET ret == tang_imap_yield(unit[delivered + 1]) IN
       IF Skipped(ret)
       THEN UNCHANGED <<mpc, fasta, n_reads, n_events>>
       ELSE IF ret.none
       THEN mpc' = "crashed" /\ UNCHANGED <<fasta, n_reads, n_events>>
       ELSE /\ fasta' = fasta \o [k \in 1..Len(ret.ret) |->
                            [name |-> ret.ret[k].name, basecall |-> ret.ret[k].seq]]
            /\ n_reads' = n_reads + Len(ret.ret)
            /\ n_events' = n_events + SumEvents(ret.ret)
            /\ mpc' = mpc
    /\ delivered' = delivered + 1
    /\ UNCHANGED <<args, nfiles, posterior, px, files_pattern, pa_list,
                   unit, file, handles, uses>>

\* line 340: the loop is over, the summary is printed
Finish ==
    /\ mpc = "planned"
    /\ delivered = Len(unit)
    /\ mpc' = "finished"
    /\ UNCHANGED <<args, nfiles, posterior, px, files_pattern, pa_list, execVars>>

\* the command lines under which main() reaches line 323
\* one configured pair, or the pair of the existing device configured twice
ExecPlatformLists ==
    { <<p>> : p \in PlatformArgs }
        \cup { << <<"N", "V", ":", "0">>, <<"N", "V", ":", "0">> >> }

ExecArgSets ==
    { a \in ArgSets : a.opencl => /\ Len(a.platforms) <= a.jobs
                                  /\ a.platforms \in ExecPlatformLists }

\* the state of main() at line 323
InitExec(A, F, D) ==
    /\ args \in A
    /\ nfiles \in F
    /\ posterior \in DataSets(D, nfiles)
    /\ mpc = "planned"
    /\ px = Len(args.platforms)
    /\ files_pattern = FilesPattern(args)
    /\ pa_list = PaList(args, nfiles)
    /\ unit = [u \in 1..Len(pa_list) |-> NewCall]
    /\ file = [f \in 1..nfiles |-> << >>]
    /\ handles = << >>
    /\ uses = {}
    /\ delivered = 0
    /\ fasta = << >>
    /\ n_reads = 0
    /\ n_events = 0

\* every command line and stream length, one family of matrices
Init == InitExec(ExecArgSets, 1..MaxFiles, {BasePost})

\* one worker, short streams, every matrix
InitRead == InitExec({a \in ExecArgSets : a.jobs = 1}, 1..MaxReadFiles, Posts)

Next ==
    \/ \E u \in Units : FeaturesOk(u)
    \/ \E u \in Units : FeaturesRaise(u)
    \/ \E u \in Units : CpuNetworkRaise(u)
    \/ \E u \in Units : DeviceAcquire(u)
    \/ \E u \in Units : DeviceMissing(u)
    \/ \E u \in Units : OpenclNetwork(u)
    \/ \E u \in Units : OpenclNetworkRaise(u)
    \/ \E u \in Units : PostsStep(u)
    \/ \E u \in Units : EstimateRaise(u)
    \/ \E u \in Units : Decode(u)
    \/ \E u \in Units : DecodeRaise(u)
    \/ \E u \in Units : WriteOk(u)
    \/ \E u \in Units : WriteIndexError(u)
    \/ \E u \in Units : WriteOpenRaise(u)
    \/ \E u \in Units : WriteFastqRaise(u)
    \/ Aggregate
    \/ Finish

Spec == Init /\ [][Next]_vars

SpecRead == InitRead /\ [][Next]_vars

----------------------------------------------------------------------------
(* Properties of the planner, under SpecPlan *)

DigitChar(d) ==
    CASE d = 0 -> "0" [] d = 1 -> "1" [] d = 2 -> "2" [] d = 3 -> "3"
      [] d = 4 -> "4" [] d = 5 -> "5" [] d = 6 -> "6" [] d = 7 -> "7"
      [] d = 8 -> "8" [] d = 9 -> "9"

RECURSIVE DecimalString(_)
DecimalString(n) ==
    IF n < 10 THEN <<DigitChar(n)>>
    ELSE DecimalString(n \div 10) \o <<DigitChar(n % 10)>>

\* C2: with accelerator use enabled, unit i (0-based) is an accelerator unit
\* exactly when i mod jobs < |P|, and then carries the vendor and the device
\* ordinal written in P[i mod jobs]; every other unit, and every unit when
\* accelerator use is disabled, is a CPU unit with no vendor.
C2_RoundRobin ==
    \A k \in 1..Len(pa_list) :
        LET slot == (k - 1) % args.jobs
            pa == pa_list[k]
        IN  IF args.opencl /\ slot < Len(args.platforms)
            THEN /\ pa.use_opencl
                 /\ pa.vendor \o <<":">> \o DecimalString(pa.device_id)
                        = args.platforms[slot + 1]
            ELSE /\ ~pa.use_opencl
                 /\ pa.vendor = NoVendor

\* three units planned for two jobs and one configured pair: the second is
\* a CPU unit, the third wraps around to the accelerator
C2_Witness ==
    /\ mpc = "planned"
    /\ args.opencl /\ args.jobs = 2 /\ Len(args.platforms) = 1
    /\ Len(pa_list) = 3
    /\ pa_list[1].use_opencl /\ ~pa_list[2].use_opencl /\ pa_list[3].use_opencl

\* C10: for every jobs >= 1 and every non-empty list of configured pairs,
\* lists longer than jobs included, building files_pattern completes, every
\* configured pair owns a slot holding the accelerator batch size and every
\* other slot holds 1.
C10_SlotTable ==
    /\ mpc # "crashed"
    /\ (args.opencl /\ mpc \in {"enumerate", "planned"}) =>
          /\ \A x \in 1..Len(args.platforms) :
                /\ x <= Len(files_pattern)
                /\ files_pattern[x] = args.opencl_input_files
          /\ \A x \in (Len(args.platforms) + 1)..Len(files_pattern) :
                files_pattern[x] = 1

----------------------------------------------------------------------------
(* Properties of the executor, under Spec and SpecRead *)

ReadsOf(u) == { Pa(u).fast5_files[k] : k \in 1..NReads(u) }

\* the read a dataset of a read file was computed from
Origin(d) == IF d.kind = "Events" THEN d.events_of ELSE d.seq.seq_of

Datasets == UNION { { file[f][k] : k \in 1..Len(file[f]) } : f \in 1..nfiles }

InFasta(read) == \E j \in 1..Len(fasta) : fasta[j].basecall.seq_of = read

InFile(read) ==
    \E f \in 1..nfiles : \E k \in 1..Len(file[f]) : Origin(file[f][k]) = read

Failed(u) == unit[u].pc = "done" /\ unit[u].failed_at # "none"

Succeeded(u) == unit[u].pc = "done" /\ unit[u].failed_at = "none"

InTrace(un, tag) == \E k \in 1..Len(un.trace) : un.trace[k] = tag

\* C1: when feature preparation raises for one read of a unit, only that
\* read is missing from the aggregated output: every read of the unit whose
\* features were prepared is written to the sequence output and counted.
C1_ReadIsolation ==
    \A u \in Units :
        (u <= delivered /\ unit[u].failed_at = "features") =>
            /\ \A k \in 1..Len(unit[u].features_list) :
                  InFasta(unit[u].features_list[k])
            /\ n_reads >= Len(unit[u].features_list)

\* C3: no sequence of any read of a failed unit is emitted, neither to the
\* sequence output nor as a dataset of a read file.
C3_NoOutputForFailedUnit ==
    \A u \in Units :
        Failed(u) => \A r \in ReadsOf(u) : ~InFasta(r) /\ ~InFile(r)

\* C3 as amended: no sequence of any read of a failed unit reaches the
\* sequence output, and no dataset of any of its reads is in a read file
\* unless the unit failed while writing the datasets of one of its reads.
C3_NoFastaForFailedUnit ==
    \A u \in Units :
        Failed(u) =>
            \A r \in ReadsOf(u) :
                /\ ~InFasta(r)
                /\ unit[u].failed_at # "write" => ~InFile(r)

\* a unit that failed while writing a later read, aggregated, with the
\* Fastq of an earlier read in a read file
C3_Witness ==
    \E u \in Units :
        /\ Failed(u) /\ unit[u].failed_at = "write" /\ u <= delivered
        /\ \E d \in Datasets : d.kind = "Fastq" /\ Origin(d) \in ReadsOf(u)

RECURSIVE CountReads(_)
CountReads(S) ==
    IF S = {} THEN 0
    ELSE LET u == CHOOSE v \in S : TRUE IN NReads(u) + CountReads(S \ {u})

\* C4: a failure of a unit in feature preparation, inference or decode never
\* aborts the aggregation or a sibling: main() does not die, a failure in
\* feature preparation is the value None, and the reads of every unit that
\* did not fail are written and counted once its result is aggregated.
C4_FailuresSkipped ==
    /\ mpc # "crashed"
    /\ \A u \in Units :
          (Failed(u) /\ unit[u].failed_at = "features") => unit[u].result = "None"
    /\ \A u \in Units :
          (u <= delivered /\ Succeeded(u)) => \A r \in ReadsOf(u) : InFasta(r)
    /\ n_reads = CountReads({ u \in Units : u <= delivered /\ Succeeded(u) })
    /\ Len(fasta) = n_reads

\* a unit that raised in inference or decode was aggregated, and so was a
\* later unit, whose reads are in the sequence output
C4_Witness ==
    \E u, v \in Units :
        /\ u < v /\ v <= delivered
        /\ Failed(u) /\ unit[u].failed_at \in {"network", "decode"}
        /\ Succeeded(v) /\ \A r \in ReadsOf(v) : InFasta(r)

\* the vendor, in lower case, occurs in the platform name, in lower case
VendorNames(vendor, name) ==
    \E off \in 0..(Len(name) - Len(vendor)) :
        \A j \in 1..Len(vendor) : LowerChar(vendor[j]) = LowerChar(name[off + j])

\* no GPU platform carries the vendor, or the first that does has no device
\* of that ordinal
NoSuchDevice(pa) ==
    LET named == { k \in 1..Len(GpuPlatforms) : VendorNames(pa.vendor, GpuPlatforms[k].name) }
    IN  \/ named = {}
        \/ LET first == CHOOSE k \in named : \A j \in named : k <= j
           IN  pa.device_id >= GpuPlatforms[first].ndev

\* C5: an accelerator unit whose vendor or device ordinal does not exist
\* never runs CPU inference or the CPU decoder, never gets past device
\* selection, never returns a result, and ends in an error.
C5_NoCpuFallback ==
    \A u \in Units :
        (Pa(u).use_opencl /\ NoSuchDevice(Pa(u))) =>
            /\ ~InTrace(unit[u], "cpu_network")
            /\ ~InTrace(unit[u], "cpu_decode")
            /\ unit[u].pc \in {"idle", "features", "device", "done"}
            /\ unit[u].ctx = 0
            /\ unit[u].result # "ret"
            /\ unit[u].pc = "done" => unit[u].failed_at \in {"features", "device"}

\* a unit of two reads, all prepared, that ended in the error of device
\* selection
C5_Witness ==
    \E u \in Units :
        /\ Pa(u).use_opencl /\ NoSuchDevice(Pa(u))
        /\ NReads(u) >= 2 /\ Len(unit[u].features_list) = NReads(u)
        /\ unit[u].pc = "done" /\ unit[u].failed_at = "device"
        /\ unit[u].result = "raised"

OwnedBy(u) == { h \in 1..Len(handles) : handles[h].owner = u }

\* C6: an accelerator unit creates one context and one queue per prepared
\* read, after all of its feature preparation and before its inference and
\* decode; a unit submits work only on handles it created; a CPU unit
\* creates and uses none.
C6_HandlesScoped ==
    /\ \A u \in Units :
          LET un == unit[u] IN
          IF Pa(u).use_opencl /\ un.ctx # 0
          THEN /\ handles[un.ctx] = [owner |-> u, kind |-> "context"]
               /\ Len(un.queue_list) = Len(un.features_list)
               /\ Len(un.features_list) = NReads(u)
               /\ \A k \in 1..Len(un.queue_list) :
                     handles[un.queue_list[k]] = [owner |-> u, kind |-> "queue"]
               /\ \A j, k \in 1..Len(un.queue_list) :
                     un.queue_list[j] = un.queue_list[k] => j = k
               /\ OwnedBy(u) = OwnHandles(un)
               /\ un.trace[NReads(u) + 1] = "acquire"
               /\ \A k \in 1..Len(un.trace) :
                     /\ k <= NReads(u) => un.trace[k] = "prepare"
                     /\ k > NReads(u) + 1 => un.trace[k] \notin {"prepare", "acquire"}
          ELSE /\ un.ctx = 0 /\ un.queue_list = << >>
               /\ OwnedBy(u) = {}
               /\ ~InTrace(un, "opencl_network") /\ ~InTrace(un, "opencl_decode")
               /\ \A p \in uses : p[1] # u
    /\ \A p \in uses : handles[p[2]].owner = p[1]

\* two accelerator units in flight at once, each holding its own handles,
\* one of them with two reads and already decoded
C6_Witness ==
    \E u, v \in Units :
        /\ u # v
        /\ unit[u].ctx # 0 /\ unit[v].ctx # 0
        /\ unit[u].pc = "write" /\ unit[v].pc \in {"network", "posts", "decode"}
        /\ NReads(u) = 2 /\ <<u, unit[u].queue_list[2]>> \in uses

\* the sentinel is the most likely state of the row: np.argmax yields the
\* last column only when it is strictly above every other
SentinelWins(row) == \A j \in 1..(Len(row) - 1) : row[j] < row[Len(row)]

Kept(P) == { t \in 1..Len(P) : ~SentinelWins(P[t]) }

\* the retained events in their original order
KeptSeq(P) ==
    CHOOSE idx \in [1..Cardinality(Kept(P)) -> 1..Len(P)] :
        /\ \A i, j \in DOMAIN idx : i < j => idx[i] < idx[j]
        /\ { idx[i] : i \in DOMAIN idx } = Kept(P)

\* M holds exactly the retained rows of P, in order, without the last column
IsFiltered(M, P) ==
    LET idx == KeptSeq(P) IN
    /\ Len(M) = Len(idx)
    /\ \A i \in 1..Len(M) :
          /\ Len(M[i]) = Len(P[idx[i]]) - 1
          /\ \A j \in 1..Len(M[i]) :
                M[i][j].min_prob_plus_rest_of[1] = P[idx[i]][j]

\* C7: with the all-X sentinel last in the k-mer table, the matrix given to
\* the transition estimator and the decoder holds exactly the events whose
\* arg-max is not the sentinel column, in order, without that column; the
\* decoded path, the event count of the result and the annotated events
\* are those of this retained set.
C7_SentinelFilter ==
    HasSentinel(args.kmers) =>
        /\ \A u \in Units :
              LET un == unit[u] IN
              /\ \A k \in 1..Len(un.trans_list) :
                    IsFiltered(un.post_list[k], posterior[Pa(u).fast5_files[k]])
              /\ \A k \in 1..Len(un.states_list) :
                    un.states_list[k].len
                        = Cardinality(Kept(posterior[Pa(u).fast5_files[k]]))
              /\ \A k \in 1..Len(un.ret) :
                    un.ret[k].n_ev
                        = Cardinality(Kept(posterior[Pa(u).fast5_files[k]]))
        /\ \A d \in Datasets :
              d.kind = "Events" =>
                  /\ d.rows = KeptSeq(posterior[d.events_of])
                  /\ d.annotated = Len(d.rows)
                  /\ d.model_state.len = Len(d.rows)

\* a returned read of two events: the sentinel most likely in the first,
\* tied with a real state in the second, which is retained
C7_Witness ==
    /\ HasSentinel(args.kmers)
    /\ \E u \in Units :
          /\ unit[u].result = "ret"
          /\ \E k \in 1..NReads(u) :
                /\ posterior[Pa(u).fast5_files[k]] = << <<1, 0, 3>>, <<0, 2, 2>> >>
                /\ unit[u].ret[k].n_ev = 1
                /\ \E d \in Datasets :
                      d.kind = "Events" /\ d.events_of = Pa(u).fast5_files[k]
                      /\ d.rows = <<2>>

\* C8: the event table and the Fastq computed from a read are written into
\* that read's own file.
C8_OwnFile ==
    \A f \in 1..nfiles :
        \A k \in 1..Len(file[f]) : Origin(file[f][k]) = f

\* C9: without a sentinel in the k-mer table, a unit whose feature
\* preparation, inference and decode succeeded and whose file writes do not
\* fail returns one result per read, no event removed.
C9_NoSentinelCompletes ==
    \A u \in Units :
        ( /\ ~HasSentinel(args.kmers)
          /\ unit[u].pc = "done"
          /\ Len(unit[u].states_list) = NReads(u)
          /\ unit[u].failed_at # "write" ) =>
            /\ unit[u].result = "ret"
            /\ Len(unit[u].ret) = NReads(u)
            /\ \A k \in 1..Len(unit[u].ret) :
                  unit[u].ret[k].n_ev = Len(posterior[Pa(u).fast5_files[k]])

====
